---- MODULE Spec2Model ----
(***************************************************************************)
(* A model of src/main.py: the smart-home device classes (Light,           *)
(* Thermostat, Camera, Clock), the access_for decorator that guards their  *)
(* operations by role, and the SmartHome registry with its name-based      *)
(* dispatch (control_device).                                              *)
(*                                                                         *)
(* Temperatures are fixed-point numbers, Scale units per degree Celsius    *)
(* (1e-7 degree each), so that the ramp's tolerance of 1e-6 degree is Eps  *)
(* units.  Brightness arguments are given in tenths so that int()'s        *)
(* truncation is part of the model.                                        *)
(***************************************************************************)
EXTENDS Integers, Sequences, FiniteSets, TLC

(* ------------------------------ Role, DeviceType ----------------------- *)

ADMIN == "admin"
USER == "user"
GUEST == "guest"
Role == {ADMIN, USER, GUEST}

LIGHT == "light"
THERMOSTAT == "thermostat"
CAMERA == "camera"
CLOCK == "clock"
SMARTHOME == "smarthome"
DeviceType == {LIGHT, THERMOSTAT, CAMERA, CLOCK, SMARTHOME}

(* ------------------------------ access_for ----------------------------- *)

\* The outcomes of the decorator's wrapper: the call goes through to the
\* body, or one of its four PermissionError messages is raised.
Allow == "allow"
DenyNoRights == "role has no access rights"
DenyGuest == "guests may only turn lights on and off"
DenyUser == "user cannot control this device"
DenyUnknown == "unknown role"

\* access_for without its first test: an admin is checked like anyone else.
access_for_NoAdminBypass(roles, role, type, fname) ==
  IF role \notin roles THEN DenyNoRights
  ELSE IF role = GUEST
    THEN IF type = LIGHT /\ fname \in {"turn_on", "turn_off"}
         THEN Allow ELSE DenyGuest
  ELSE IF role = USER
    THEN IF type = SMARTHOME /\ fname \in {"add_device"} THEN Allow
         ELSE IF type \in {LIGHT, THERMOSTAT} THEN Allow
         ELSE DenyUser
  ELSE DenyUnknown

\* access_for with turn_on missing from the names a guest may call.
access_for_GuestOffOnly(roles, role, type, fname) ==
  IF role = ADMIN THEN Allow
  ELSE IF role \notin roles THEN DenyNoRights
  ELSE IF role = GUEST
    THEN IF type = LIGHT /\ fname \in {"turn_off"}
         THEN Allow ELSE DenyGuest
  ELSE IF role = USER
    THEN IF type = SMARTHOME /\ fname \in {"add_device"} THEN Allow
         ELSE IF type \in {LIGHT, THERMOSTAT} THEN Allow
         ELSE DenyUser
  ELSE DenyUnknown

\* access_for without the add_device exception of the user branch.
access_for_NoUserAddDevice(roles, role, type, fname) ==
  IF role = ADMIN THEN Allow
  ELSE IF role \notin roles THEN DenyNoRights
  ELSE IF role = GUEST
    THEN IF type = LIGHT /\ fname \in {"turn_on", "turn_off"}
         THEN Allow ELSE DenyGuest
  ELSE IF role = USER
    THEN IF type \in {LIGHT, THERMOSTAT} THEN Allow
         ELSE DenyUser
  ELSE DenyUnknown

\* access_for with THERMOSTAT missing from the kinds a user may control.
access_for_UserLightOnly(roles, role, type, fname) ==
  IF role = ADMIN THEN Allow
  ELSE IF role \notin roles THEN DenyNoRights
  ELSE IF role = GUEST
    THEN IF type = LIGHT /\ fname \in {"turn_on", "turn_off"}
         THEN Allow ELSE DenyGuest
  ELSE IF role = USER
    THEN IF type = SMARTHOME /\ fname \in {"add_device"} THEN Allow
         ELSE IF type \in {LIGHT} THEN Allow
         ELSE DenyUser
  ELSE DenyUnknown

\* wrapper(self, user, ...) of access_for(roles) around func: self.type is
\* type, func.__name__ is fname, user.role is role.
access_for(roles, role, type, fname) ==
  IF role = ADMIN THEN Allow
  ELSE IF role \notin roles THEN DenyNoRights
  ELSE IF role = GUEST
    THEN IF type = LIGHT /\ fname \in {"turn_on", "turn_off"}
         THEN Allow ELSE DenyGuest
  ELSE IF role = USER
    THEN IF type = SMARTHOME /\ fname \in {"add_device"} THEN Allow
         ELSE IF type \in {LIGHT, THERMOSTAT} THEN Allow
         ELSE DenyUser
  ELSE DenyUnknown

\* The role set each guarded operation declares in its @access_for(...) line.
DeclaredRoles(type, fname) ==
  IF type = LIGHT
    THEN IF fname \in {"turn_on", "turn_off"} THEN {ADMIN, USER, GUEST}
         ELSE {ADMIN, USER}
  ELSE IF type = THERMOSTAT THEN {ADMIN, USER}
  ELSE IF type = SMARTHOME /\ fname = "add_device" THEN {ADMIN, USER}
  ELSE {ADMIN}

\* The guarded operations each class defines.
Operations(type) ==
  IF type = LIGHT THEN {"set_brightness", "turn_off", "turn_on"}
  ELSE IF type = THERMOSTAT
    THEN {"set_current_temp", "set_target_temp", "turn_on", "turn_off", "start"}
  ELSE IF type = CAMERA
    THEN {"turn_on", "turn_off", "start_recording", "stop_recording",
          "show_memory", "remove"}
  ELSE IF type = CLOCK THEN {"set_12h", "set_24h", "turn_on", "turn_off"}
  ELSE {"add_device", "remove_device", "show_all_devices", "find", "clear"}

(* ------------------------------ call outcomes -------------------------- *)

\* A call binds its positional arguments before the body runs: too many of
\* them (or, for Camera.remove, none) raise TypeError once the guard has let
\* the call through.
\*
\* What a call leaves behind: the object after the call (self), how the call
\* ended (res: "ok" or the exception class raised), the PermissionError
\* message if any (msg), the number of log lines written (logs), the value
\* returned (ret) and whether the call is still running (pc: "loop" while
\* Thermostat.start is in its while loop, "done" otherwise).
Out(self, res, msg, logs, ret, pc) ==
  [self |-> self, res |-> res, msg |-> msg, logs |-> logs, ret |-> ret, pc |-> pc]

Return(self, logs, ret) == Out(self, "ok", "", logs, ret, "done")

Raise(self, res, logs) == Out(self, res, "", logs, <<>>, "done")

Denied(self, msg) == Out(self, "PermissionError", msg, 0, <<>>, "done")

(* ------------------------------ Light ---------------------------------- *)

\* int(value) of a number given in tenths: truncation toward zero.
IntOf(value) == IF value >= 0 THEN value \div 10 ELSE -((-value) \div 10)

MinBrightness == 0
MaxBrightness == 100
DefaultLevel == 500

\* Light.__init__(id_name, name, brightness=0)
NewLight(id_name) ==
  [type |-> LIGHT, id_name |-> id_name, brightness |-> 0, status |-> FALSE]

\* The brightness setter: int(value), the range check, the assignment.
BrightnessValid(value) ==
  MinBrightness <= IntOf(value) /\ IntOf(value) <= MaxBrightness

Light_set_brightness(self, user, args) ==
  LET g == access_for({ADMIN, USER}, user, self.type, "set_brightness")
      value == IF args = <<>> THEN DefaultLevel ELSE args[1]
  IN IF g # Allow THEN Denied(self, g)
     ELSE IF Len(args) > 1 THEN Raise(self, "TypeError", 0)
     ELSE IF ~BrightnessValid(value) THEN Raise(self, "ValueError", 0)
     ELSE Return([self EXCEPT !.brightness = IntOf(value)], 1, <<>>)

Light_turn_off(self, user, args) ==
  LET g == access_for({ADMIN, USER, GUEST}, user, self.type, "turn_off")
  IN IF g # Allow THEN Denied(self, g)
     ELSE IF Len(args) > 0 THEN Raise(self, "TypeError", 0)
     ELSE Return([self EXCEPT !.status = FALSE], 1, <<>>)

Light_turn_on(self, user, args) ==
  LET g == access_for({ADMIN, USER, GUEST}, user, self.type, "turn_on")
      level == IF args = <<>> THEN DefaultLevel ELSE args[1]
  IN IF g # Allow THEN Denied(self, g)
     ELSE IF Len(args) > 1 THEN Raise(self, "TypeError", 0)
     ELSE IF ~BrightnessValid(level) THEN Raise(self, "ValueError", 0)
     ELSE Return([self EXCEPT !.brightness = IntOf(level), !.status = TRUE],
                 1, <<>>)

(* ------------------------------ Thermostat ----------------------------- *)

\* Temperatures are counted in units of 1e-7 degree: Scale units per degree.
Scale == 10000000
\* The ramp's tolerance, 1e-6 degree.
Eps == 10
MinTemp == 5 * Scale
MaxTemp == 30 * Scale
InitialCurrent == 28 * Scale
DefaultCurrent == 24 * Scale
DefaultTarget == 20 * Scale
DefaultStepSec == 3
DefaultStepTemp == Scale \div 2

Abs(x) == IF x < 0 THEN -x ELSE x
Min(a, b) == IF a <= b THEN a ELSE b
Max(a, b) == IF a >= b THEN a ELSE b

\* Thermostat.__init__(id_name, name, current=28.0); target None is <<>>.
NewThermostat(id_name) ==
  [type |-> THERMOSTAT, id_name |-> id_name, current |-> InitialCurrent,
   target |-> <<>>, status |-> FALSE]

\* _is_validate without the upper end of its range.
TempValid_NoUpperEnd(temp) == MinTemp <= temp

\* _is_validate(temp) returns float(temp) if it is in range, raises otherwise.
TempValid(temp) == MinTemp <= temp /\ temp <= MaxTemp

Thermostat_set_current_temp(self, user, args) ==
  LET g == access_for({ADMIN, USER}, user, self.type, "set_current_temp")
      temp == IF args = <<>> THEN DefaultCurrent ELSE args[1]
  IN IF g # Allow THEN Denied(self, g)
     ELSE IF Len(args) > 1 THEN Raise(self, "TypeError", 0)
     ELSE IF ~TempValid(temp) THEN Raise(self, "ValueError", 0)
     ELSE Return([self EXCEPT !.current = temp], 1, <<>>)

Thermostat_turn_on(self, user, args) ==
  LET g == access_for({ADMIN, USER}, user, self.type, "turn_on")
  IN IF g # Allow THEN Denied(self, g)
     ELSE IF Len(args) > 0 THEN Raise(self, "TypeError", 0)
     ELSE IF ~self.status THEN Return([self EXCEPT !.status = TRUE], 1, <<>>)
     ELSE Return(self, 0, <<>>)

Thermostat_turn_off(self, user, args) ==
  LET g == access_for({ADMIN, USER}, user, self.type, "turn_off")
  IN IF g # Allow THEN Denied(self, g)
     ELSE IF Len(args) > 0 THEN Raise(self, "TypeError", 0)
     ELSE IF self.status THEN Return([self EXCEPT !.status = FALSE], 1, <<>>)
     ELSE Return(self, 0, <<>>)

\* self.target = temp; self.turn_on(user); one more log line.
\* set_target_temp without its call of turn_on.
Thermostat_set_target_temp_NoTurnOn(self, user, args) ==
  LET g == access_for({ADMIN, USER}, user, self.type, "set_target_temp")
      temp == IF args = <<>> THEN DefaultTarget ELSE args[1]
  IN IF g # Allow THEN Denied(self, g)
     ELSE IF Len(args) > 1 THEN Raise(self, "TypeError", 0)
     ELSE IF ~TempValid(temp) THEN Raise(self, "ValueError", 0)
     ELSE Return([self EXCEPT !.target = <<temp>>], 1, <<>>)

Thermostat_set_target_temp(self, user, args) ==
  LET g == access_for({ADMIN, USER}, user, self.type, "set_target_temp")
      temp == IF args = <<>> THEN DefaultTarget ELSE args[1]
      on == Thermostat_turn_on([self EXCEPT !.target = <<temp>>], user, <<>>)
  IN IF g # Allow THEN Denied(self, g)
     ELSE IF Len(args) > 1 THEN Raise(self, "TypeError", 0)
     ELSE IF ~TempValid(temp) THEN Raise(self, "ValueError", 0)
     ELSE IF on.res # "ok" THEN on
     ELSE Return(on.self, on.logs + 1, <<>>)

\* start up to its while loop: the two precondition checks, the start log
\* line and the first time.sleep(step_sec), which raises ValueError on a
\* negative length.
Thermostat_start(self, user, args) ==
  LET g == access_for({ADMIN, USER}, user, self.type, "start")
      step_sec == IF Len(args) >= 1 THEN args[1] ELSE DefaultStepSec
  IN IF g # Allow THEN Denied(self, g)
     ELSE IF Len(args) > 2 THEN Raise(self, "TypeError", 0)
     ELSE IF ~self.status THEN Raise(self, "RuntimeError", 0)
     ELSE IF self.target = <<>> THEN Raise(self, "RuntimeError", 0)
     ELSE IF step_sec < 0 THEN Raise(self, "ValueError", 1)
     ELSE Out(self, "running", "", 1, <<>>, "loop")

\* The step_temp a start call runs with.
StepTempOf(args) == IF Len(args) >= 2 THEN args[2] ELSE DefaultStepTemp

\* The loop body without min and max: current moves by step_temp whatever
\* the distance left.
Thermostat_start_loop_NoClamp(self, user, step_temp) ==
  LET cur == self.current
      tgt == self.target[1]
      new == IF cur < tgt THEN cur + step_temp ELSE cur - step_temp
      off == Thermostat_turn_off(self, user, <<>>)
  IN IF Abs(cur - tgt) > Eps
     THEN IF ~TempValid(new) THEN Raise(self, "ValueError", 0)
          ELSE Out([self EXCEPT !.current = new], "running", "", 1, <<>>, "loop")
     ELSE Out(off.self, off.res, off.msg, off.logs + 1, <<>>, "done")

\* One evaluation of the while condition of start and what follows it: the
\* loop body (the clamped move of current through its validating setter, a
\* log line, the sleep, whose length the first sleep has shown to be valid),
\* or the loop's exit (a log line and turn_off).
Thermostat_start_loop(self, user, step_temp) ==
  LET cur == self.current
      tgt == self.target[1]
      new == IF cur < tgt THEN Min(tgt, cur + step_temp)
             ELSE Max(tgt, cur - step_temp)
      off == Thermostat_turn_off(self, user, <<>>)
  IN IF Abs(cur - tgt) > Eps
     THEN IF ~TempValid(new) THEN Raise(self, "ValueError", 0)
          ELSE Out([self EXCEPT !.current = new], "running", "", 1, <<>>, "loop")
     ELSE Out(off.self, off.res, off.msg, off.logs + 1, <<>>, "done")

(* ------------------------------ Camera --------------------------------- *)

\* A dict with no keys.
EmptyDict == [k \in {} |-> <<>>]

\* del d[key]
DictDel(d, key) == [k \in DOMAIN d \ {key} |-> d[k]]

\* d[key] = value
DictSet(d, key, value) == [k \in DOMAIN d \cup {key} |-> IF k = key THEN value ELSE d[k]]

\* Camera.__init__(id_name, name); record None is <<>>.
NewCamera(id_name) ==
  [type |-> CAMERA, id_name |-> id_name, status |-> FALSE, memory |-> EmptyDict,
   record |-> <<>>, next_id |-> 1]

\* turn_on without its test of _status: it assigns and logs every time.
Camera_turn_on_Unconditional(self, user, args) ==
  LET g == access_for({ADMIN}, user, self.type, "turn_on")
  IN IF g # Allow THEN Denied(self, g)
     ELSE IF Len(args) > 0 THEN Raise(self, "TypeError", 0)
     ELSE Return([self EXCEPT !.status = TRUE], 1, <<>>)

Camera_turn_on(self, user, args) ==
  LET g == access_for({ADMIN}, user, self.type, "turn_on")
  IN IF g # Allow THEN Denied(self, g)
     ELSE IF Len(args) > 0 THEN Raise(self, "TypeError", 0)
     ELSE IF ~self.status THEN Return([self EXCEPT !.status = TRUE], 1, <<>>)
     ELSE Return(self, 0, <<>>)

Camera_turn_off(self, user, args) ==
  LET g == access_for({ADMIN}, user, self.type, "turn_off")
  IN IF g # Allow THEN Denied(self, g)
     ELSE IF Len(args) > 0 THEN Raise(self, "TypeError", 0)
     ELSE IF self.status THEN Return([self EXCEPT !.status = FALSE], 1, <<>>)
     ELSE Return(self, 0, <<>>)

\* start_recording without its test for a recording in progress.
Camera_start_recording_NoActiveCheck(self, user, args, now) ==
  LET g == access_for({ADMIN}, user, self.type, "start_recording")
  IN IF g # Allow THEN Denied(self, g)
     ELSE IF Len(args) > 0 THEN Raise(self, "TypeError", 0)
     ELSE IF ~self.status THEN Raise(self, "RuntimeError", 0)
     ELSE Return([self EXCEPT !.record = <<now>>], 1, <<>>)

\* now is what datetime.now() gives during the call.
Camera_start_recording(self, user, args, now) ==
  LET g == access_for({ADMIN}, user, self.type, "start_recording")
  IN IF g # Allow THEN Denied(self, g)
     ELSE IF Len(args) > 0 THEN Raise(self, "TypeError", 0)
     ELSE IF ~self.status THEN Raise(self, "RuntimeError", 0)
     ELSE IF self.record # <<>> THEN Raise(self, "RuntimeError", 0)
     ELSE Return([self EXCEPT !.record = <<now>>], 1, <<>>)

\* stop_recording with the key taken from the size of the memory.
Camera_stop_recording_KeyFromSize(self, user, args, now) ==
  LET g == access_for({ADMIN}, user, self.type, "stop_recording")
      key == ToString(Cardinality(DOMAIN self.memory) + 1)
  IN IF g # Allow THEN Denied(self, g)
     ELSE IF Len(args) > 0 THEN Raise(self, "TypeError", 0)
     ELSE IF ~self.status THEN Raise(self, "RuntimeError", 0)
     ELSE IF self.record = <<>> THEN Raise(self, "RuntimeError", 0)
     ELSE Return([self EXCEPT !.memory = DictSet(@, key, <<self.record[1], now>>),
                              !.record = <<>>,
                              !.next_id = @ + 1], 1, <<>>)

\* The memory entry is the pair (start, finish) of the formatted string.
Camera_stop_recording(self, user, args, now) ==
  LET g == access_for({ADMIN}, user, self.type, "stop_recording")
      key == ToString(self.next_id)
  IN IF g # Allow THEN Denied(self, g)
     ELSE IF Len(args) > 0 THEN Raise(self, "TypeError", 0)
     ELSE IF ~self.status THEN Raise(self, "RuntimeError", 0)
     ELSE IF self.record = <<>> THEN Raise(self, "RuntimeError", 0)
     ELSE Return([self EXCEPT !.memory = DictSet(@, key, <<self.record[1], now>>),
                              !.record = <<>>,
                              !.next_id = @ + 1], 1, <<>>)

Camera_show_memory(self, user, args) ==
  LET g == access_for({ADMIN}, user, self.type, "show_memory")
  IN IF g # Allow THEN Denied(self, g)
     ELSE IF Len(args) > 0 THEN Raise(self, "TypeError", 0)
     ELSE Return(self, 0, self.memory)

Camera_remove(self, user, args) ==
  LET g == access_for({ADMIN}, user, self.type, "remove")
      key == ToString(args[1])
  IN IF g # Allow THEN Denied(self, g)
     ELSE IF Len(args) # 1 THEN Raise(self, "TypeError", 0)
     ELSE IF key \notin DOMAIN self.memory THEN Raise(self, "KeyError", 0)
     ELSE Return([self EXCEPT !.memory = DictDel(@, key)], 1, <<>>)

(* ------------------------------ Clock ---------------------------------- *)

\* Clock.__init__(id_name, name)
NewClock(id_name) ==
  [type |-> CLOCK, id_name |-> id_name, status |-> FALSE, en_time |-> FALSE]

Clock_set_12h(self, user, args) ==
  LET g == access_for({ADMIN}, user, self.type, "set_12h")
  IN IF g # Allow THEN Denied(self, g)
     ELSE IF Len(args) > 0 THEN Raise(self, "TypeError", 0)
     ELSE IF ~self.status THEN Raise(self, "RuntimeError", 0)
     ELSE Return([self EXCEPT !.en_time = TRUE], 0, <<>>)

Clock_set_24h(self, user, args) ==
  LET g == access_for({ADMIN}, user, self.type, "set_24h")
  IN IF g # Allow THEN Denied(self, g)
     ELSE IF Len(args) > 0 THEN Raise(self, "TypeError", 0)
     ELSE IF ~self.status THEN Raise(self, "RuntimeError", 0)
     ELSE Return([self EXCEPT !.en_time = FALSE], 0, <<>>)

Clock_turn_on(self, user, args) ==
  LET g == access_for({ADMIN}, user, self.type, "turn_on")
  IN IF g # Allow THEN Denied(self, g)
     ELSE IF Len(args) > 0 THEN Raise(self, "TypeError", 0)
     ELSE IF ~self.status THEN Return([self EXCEPT !.status = TRUE], 1, <<>>)
     ELSE Return(self, 0, <<>>)

Clock_turn_off(self, user, args) ==
  LET g == access_for({ADMIN}, user, self.type, "turn_off")
  IN IF g # Allow THEN Denied(self, g)
     ELSE IF Len(args) > 0 THEN Raise(self, "TypeError", 0)
     ELSE IF self.status THEN Return([self EXCEPT !.status = FALSE], 1, <<>>)
     ELSE Return(self, 0, <<>>)

(* ------------------------------ attribute lookup ----------------------- *)

\* Attributes of a device that are not methods: the properties of Device and
\* of its class (a sample of them).
Properties(type) ==
  {"status", "type", "id_name", "name"}
    \cup (IF type = LIGHT THEN {"brightness"}
          ELSE IF type = THERMOSTAT THEN {"current", "target"}
          ELSE IF type = CLOCK THEN {"current_time", "current_datetime"}
          ELSE {})

\* Methods of a device that access_for does not guard (one of them): called
\* with (user, *args), __init__ takes the user for the id_name, which the
\* id_name setter rejects with a TypeError before anything is assigned.
Unguarded(type) == {"__init__"}

\* The bound method name of self, called with (user, *args).
Invoke(self, name, user, args, now) ==
  IF self.type = LIGHT THEN
    CASE name = "set_brightness" -> Light_set_brightness(self, user, args)
      [] name = "turn_off" -> Light_turn_off(self, user, args)
      [] name = "turn_on" -> Light_turn_on(self, user, args)
  ELSE IF self.type = THERMOSTAT THEN
    CASE name = "set_current_temp" -> Thermostat_set_current_temp(self, user, args)
      [] name = "set_target_temp" -> Thermostat_set_target_temp(self, user, args)
      [] name = "turn_on" -> Thermostat_turn_on(self, user, args)
      [] name = "turn_off" -> Thermostat_turn_off(self, user, args)
      [] name = "start" -> Thermostat_start(self, user, args)
  ELSE IF self.type = CAMERA THEN
    CASE name = "turn_on" -> Camera_turn_on(self, user, args)
      [] name = "turn_off" -> Camera_turn_off(self, user, args)
      [] name = "start_recording" -> Camera_start_recording(self, user, args, now)
      [] name = "stop_recording" -> Camera_stop_recording(self, user, args, now)
      [] name = "show_memory" -> Camera_show_memory(self, user, args)
      [] name = "remove" -> Camera_remove(self, user, args)
  ELSE
    CASE name = "set_12h" -> Clock_set_12h(self, user, args)
      [] name = "set_24h" -> Clock_set_24h(self, user, args)
      [] name = "turn_on" -> Clock_turn_on(self, user, args)
      [] name = "turn_off" -> Clock_turn_off(self, user, args)

(* ------------------------------ state ---------------------------------- *)

VARIABLES
  objs,    \* the device objects that have been constructed
  dev,     \* each device object's fields
  homes,   \* each SmartHome's fields (all_devices: id_name -> device object)
  pc,      \* "loop" while a Thermostat.start call is in its while loop, else "idle"
  last,    \* the call made last: who called what, on what, and how it ended
  held     \* the dict a show_all_devices call returned, while its caller keeps it

vars == <<objs, dev, homes, pc, last, held>>

\* The device objects a program may construct, with the id_name each is
\* given: the light and the clock are given the same one.
Pool == {"l1", "t1", "c1", "k1"}

Construct(o) ==
  CASE o = "l1" -> NewLight("L1")
    [] o = "t1" -> NewThermostat("T1")
    [] o = "c1" -> NewCamera("C1")
    [] o = "k1" -> NewClock("L1")

Homes == {"h1", "h2"}

\* SmartHome.__init__()
NewSmartHome == [type |-> SMARTHOME, all_devices |-> EmptyDict]

NoCall ==
  [op |-> "", role |-> "", on |-> "", via |-> "", args |-> <<>>, res |-> "",
   msg |-> "", logs |-> 0, ret |-> <<>>, before |-> <<>>, steps |-> 0]

\* The record of a call of op by a user of this role on the object on (a
\* device, a SmartHome, or "" when control_device found no device), that
\* ended as out says: via is the SmartHome whose control_device made the
\* call ("" for a direct call), before the object's fields when the call was
\* made, steps the iterations of start's loop so far.
CallRecord(op, role, on, via, args, out, before) ==
  [op |-> op, role |-> role, on |-> on, via |-> via, args |-> args,
   res |-> out.res, msg |-> out.msg, logs |-> out.logs, ret |-> out.ret,
   before |-> before, steps |-> 0]

\* No dict is held.  A dict that is held is the dict object of SmartHome of
\* itself (own is FALSE: its entries are those of homes[of].all_devices) or
\* an object of its own, with the entries val.
NoneHeld == [of |-> "", own |-> TRUE, val |-> EmptyDict]

\* The entries of the dict that is held.
HeldValue == IF held.own THEN held.val ELSE homes[held.of].all_devices

\* Whether the last call changed the object it was made on, or gave its
\* caller a dict to keep.
Changed ==
  IF last.on \in Pool THEN dev[last.on] # last.before
  ELSE IF last.on \in Homes
    THEN \/ homes[last.on] # last.before
         \/ last.op = "show_all_devices" /\ last.res = "ok" /\ held.of = last.on
  ELSE last.op = ""

\* A run is followed call by call up to the first call that changes nothing:
\* the program is then in the state it was in before that call, and what may
\* follow is what may follow that state.  No call starts while a start call
\* is in its loop (the program has one thread).
Idle == pc = "idle" /\ Changed

(* ------------------------------ SmartHome ------------------------------ *)

\* add_device without its test for a key that is already there.
SmartHome_add_device_Overwrite(self, user, device) ==
  LET g == access_for({ADMIN, USER}, user, self.type, "add_device")
      key == dev[device].id_name
  IN IF g # Allow THEN Denied(self, g)
     ELSE Return([self EXCEPT !.all_devices = DictSet(@, key, device)], 1, <<>>)

\* add_device with the device's type for the key.
SmartHome_add_device_KeyByType(self, user, device) ==
  LET g == access_for({ADMIN, USER}, user, self.type, "add_device")
      key == dev[device].type
  IN IF g # Allow THEN Denied(self, g)
     ELSE IF key \in DOMAIN self.all_devices THEN Raise(self, "KeyError", 0)
     ELSE Return([self EXCEPT !.all_devices = DictSet(@, key, device)], 1, <<>>)

SmartHome_add_device(self, user, device) ==
  LET g == access_for({ADMIN, USER}, user, self.type, "add_device")
      key == dev[device].id_name
  IN IF g # Allow THEN Denied(self, g)
     ELSE IF key \in DOMAIN self.all_devices THEN Raise(self, "KeyError", 0)
     ELSE Return([self EXCEPT !.all_devices = DictSet(@, key, device)], 1, <<>>)

\* remove_device without its @access_for line.
SmartHome_remove_device_Unguarded(self, user, device) ==
  LET key == dev[device].id_name
  IN IF key \notin DOMAIN self.all_devices THEN Raise(self, "KeyError", 0)
     ELSE Return([self EXCEPT !.all_devices = DictDel(@, key)], 1, <<>>)

SmartHome_remove_device(self, user, device) ==
  LET g == access_for({ADMIN}, user, self.type, "remove_device")
      key == dev[device].id_name
  IN IF g # Allow THEN Denied(self, g)
     ELSE IF key \notin DOMAIN self.all_devices THEN Raise(self, "KeyError", 0)
     ELSE Return([self EXCEPT !.all_devices = DictDel(@, key)], 1, <<>>)

\* d.copy(): a dict object of its own with the entries of d.
DictCopy(d) == [own |-> TRUE, val |-> d]

\* show_all_devices returning the dict of the SmartHome, not a copy of it.
SmartHome_show_all_devices_NoCopy(self, user) ==
  LET g == access_for({ADMIN}, user, self.type, "show_all_devices")
  IN IF g # Allow THEN Denied(self, g)
     ELSE Return(self, 0, [own |-> FALSE, val |-> self.all_devices])

SmartHome_show_all_devices(self, user) ==
  LET g == access_for({ADMIN}, user, self.type, "show_all_devices")
  IN IF g # Allow THEN Denied(self, g)
     ELSE Return(self, 0, DictCopy(self.all_devices))

SmartHome_find(self, user, id_name) ==
  LET g == access_for({ADMIN}, user, self.type, "find")
  IN IF g # Allow THEN Denied(self, g)
     ELSE IF id_name \notin DOMAIN self.all_devices THEN Raise(self, "KeyError", 0)
     ELSE Return(self, 0, self.all_devices[id_name])

SmartHome_clear(self, user) ==
  LET g == access_for({ADMIN}, user, self.type, "clear")
  IN IF g # Allow THEN Denied(self, g)
     ELSE Return([self EXCEPT !.all_devices = EmptyDict], 1, <<>>)

\* control_device is not decorated.  obj is the device it reached ("" if
\* none), out what the call left of it.  hasattr(obj, method_name) is true of
\* every attribute, method or not, and lets any exception but AttributeError
\* through: reading Clock.current_time raises RuntimeError while the clock is
\* off.  Calling an attribute that is no method raises TypeError.
SmartHome_control_device(self, user, id_name, method_name, args, now) ==
  IF id_name \in DOMAIN self.all_devices
  THEN LET obj == self.all_devices[id_name]
           d == dev[obj]
       IN [obj |-> obj,
           out |-> IF method_name \in Operations(d.type)
                     THEN Invoke(d, method_name, user, args, now)
                   ELSE IF method_name \in Properties(d.type)
                     THEN IF /\ method_name \in {"current_time", "current_datetime"}
                             /\ ~d.status
                          THEN Raise(d, "RuntimeError", 0)
                          ELSE Raise(d, "TypeError", 0)
                   ELSE IF method_name \in Unguarded(d.type)
                     THEN Raise(d, "TypeError", 0)
                   ELSE Raise(d, "ValueError", 0)]
  ELSE [obj |-> "", out |-> Raise(<<>>, "KeyError", 0)]

(* ------------------------------ actions -------------------------------- *)

\* Bounds of the model: the devices constructed at most, the recordings a
\* camera stores at most, the loop iterations of one start call that are
\* counted at most.
MaxDevices == 1
MaxRecords == 2
MaxSteps == 50

\* The state once the devices in made and the two SmartHomes are constructed.
InitWith(made) ==
  /\ objs = made
  /\ dev = [o \in Pool |-> Construct(o)]
  /\ homes = [h \in Homes |-> NewSmartHome]
  /\ pc = "idle"
  /\ last = NoCall
  /\ held = NoneHeld

\* The state after a call on device o that ended as out says.
AfterDeviceCall(o, out, rec) ==
  /\ dev' = [dev EXCEPT ![o] = out.self]
  /\ pc' = IF out.pc = "loop" THEN "loop" ELSE "idle"
  /\ last' = rec
  /\ UNCHANGED <<objs, homes, held>>

\* A direct call o.name(user, *args).
DeviceCall(o, name, user, args, now) ==
  /\ Idle
  /\ o \in objs
  /\ name \in Operations(dev[o].type)
  /\ name = "stop_recording" => dev[o].next_id <= MaxRecords
  /\ LET out == Invoke(dev[o], name, user, args, now)
     IN AfterDeviceCall(o, out, CallRecord(name, user, o, "", args, out, dev[o]))

\* One evaluation of the while condition of the start call in progress.
\* The iterations and their log lines are counted up to MaxSteps iterations;
\* the loop goes on when the count has stopped.
RampStep ==
  /\ pc = "loop"
  /\ LET out == Thermostat_start_loop(dev[last.on], last.role, StepTempOf(last.args))
         counted == out.pc = "loop" => last.steps < MaxSteps
     IN /\ dev' = [dev EXCEPT ![last.on] = out.self]
        /\ pc' = IF out.pc = "loop" THEN "loop" ELSE "idle"
        /\ last' = [last EXCEPT !.res = out.res, !.msg = out.msg,
                                !.logs = IF counted THEN @ + out.logs ELSE @,
                                !.steps = IF out.pc = "loop" /\ counted
                                            THEN @ + 1 ELSE @]
        /\ UNCHANGED <<objs, homes, held>>

\* The state after a call on SmartHome h that ended as out says.
AfterHomeCall(h, out, rec) ==
  /\ homes' = [homes EXCEPT ![h] = out.self]
  /\ last' = rec
  /\ UNCHANGED <<objs, dev, pc, held>>

AddDevice(h, user, device) ==
  /\ Idle
  /\ device \in objs
  /\ LET out == SmartHome_add_device(homes[h], user, device)
     IN AfterHomeCall(h, out,
          CallRecord("add_device", user, h, "", <<device>>, out, homes[h]))

RemoveDevice(h, user, device) ==
  /\ Idle
  /\ device \in objs
  /\ LET out == SmartHome_remove_device(homes[h], user, device)
     IN AfterHomeCall(h, out,
          CallRecord("remove_device", user, h, "", <<device>>, out, homes[h]))

ShowAllDevices(h, user) ==
  /\ Idle
  /\ LET out == SmartHome_show_all_devices(homes[h], user)
     IN AfterHomeCall(h, out,
          CallRecord("show_all_devices", user, h, "", <<>>, out, homes[h]))

\* held = h.show_all_devices(user): the caller keeps what the call returns.
KeepAllDevices(h, user) ==
  /\ Idle
  /\ LET out == SmartHome_show_all_devices(homes[h], user)
     IN /\ homes' = [homes EXCEPT ![h] = out.self]
        /\ last' = CallRecord("show_all_devices", user, h, "", <<>>, out, homes[h])
        /\ held' = IF out.res = "ok"
                     THEN [of |-> h, own |-> out.ret.own, val |-> out.ret.val]
                     ELSE held
        /\ UNCHANGED <<objs, dev, pc>>

\* held[key] = device, by the caller that keeps the dict.
HeldSet(key, device) ==
  /\ pc = "idle"
  /\ held.of # ""
  /\ device \in objs
  /\ IF held.own
       THEN /\ held' = [held EXCEPT !.val = DictSet(@, key, device)]
            /\ UNCHANGED homes
       ELSE /\ homes' = [homes EXCEPT ![held.of].all_devices = DictSet(@, key, device)]
            /\ UNCHANGED held
  /\ UNCHANGED <<objs, dev, pc, last>>

\* del held[key], by the caller that keeps the dict.
HeldDel(key) ==
  /\ pc = "idle"
  /\ held.of # ""
  /\ key \in DOMAIN HeldValue
  /\ IF held.own
       THEN /\ held' = [held EXCEPT !.val = DictDel(@, key)]
            /\ UNCHANGED homes
       ELSE /\ homes' = [homes EXCEPT ![held.of].all_devices = DictDel(@, key)]
            /\ UNCHANGED held
  /\ UNCHANGED <<objs, dev, pc, last>>

Find(h, user, id_name) ==
  /\ Idle
  /\ LET out == SmartHome_find(homes[h], user, id_name)
     IN AfterHomeCall(h, out,
          CallRecord("find", user, h, "", <<id_name>>, out, homes[h]))

Clear(h, user) ==
  /\ Idle
  /\ LET out == SmartHome_clear(homes[h], user)
     IN AfterHomeCall(h, out, CallRecord("clear", user, h, "", <<>>, out, homes[h]))

\* h.control_device(user, id_name, method_name, *args)
ControlDevice(h, user, id_name, method_name, args, now) ==
  /\ Idle
  /\ LET c == SmartHome_control_device(homes[h], user, id_name, method_name, args, now)
     IN IF c.obj = ""
        THEN /\ last' = CallRecord(method_name, user, "", h, <<id_name>>, c.out, <<>>)
             /\ UNCHANGED <<objs, dev, homes, pc, held>>
        ELSE /\ method_name = "stop_recording" /\ dev[c.obj].type = CAMERA
                  => dev[c.obj].next_id <= MaxRecords
             /\ AfterDeviceCall(c.obj, c.out,
                  CallRecord(method_name, user, c.obj, h, args, c.out, dev[c.obj]))

(* ------------------------------ Spec: a home --------------------------- *)

\* The id_names device objects are constructed with, and one no device has.
Ids == {"L1", "T1", "C1", "X9"}

\* The arguments calls are made with (brightness in tenths, temperatures in
\* units, start with (step_sec, step_temp)); <<>> leaves the defaults.
HomeArgs(type, name) ==
  IF type = LIGHT /\ name = "turn_on" THEN {<<>>, <<1010>>}
  ELSE IF type = LIGHT /\ name = "set_brightness" THEN {<<800>>}
  ELSE IF type = THERMOSTAT /\ name = "set_target_temp" THEN {<<>>, <<31 * Scale>>}
  ELSE IF type = THERMOSTAT /\ name = "start" THEN {<<0, 4 * Scale>>}
  ELSE IF type = CAMERA /\ name = "remove" THEN {<<1>>}
  ELSE {<<>>}

\* What datetime.now() may give.
HomeTimes == {1}

\* The names control_device is called with: every operation of every
\* device class, two attributes that are not methods, a method that is not
\* guarded, and a name no device has.
MethodNames ==
  UNION {Operations(t) : t \in DeviceType \ {SMARTHOME}}
    \cup {"status", "current_time", "fly", "__init__"}

\* The names worth calling the device registered under id_name with: its
\* own operations, the attributes that are no methods, one operation only
\* lights have and the name no device has.  With no device under id_name
\* control_device does not look at the name: one name stands for all.
NamesFor(h, id_name) ==
  IF id_name \in DOMAIN homes[h].all_devices
  THEN Operations(dev[homes[h].all_devices[id_name]].type)
         \cup {"status", "current_time", "fly", "__init__", "set_brightness"}
  ELSE {"turn_on"}

\* The arguments control_device passes on for a name.
ControlArgs(name) ==
  UNION {HomeArgs(t, name) : t \in {t \in DeviceType \ {SMARTHOME} : name \in Operations(t)}}
    \cup (IF \E t \in DeviceType \ {SMARTHOME} : name \in Operations(t) THEN {} ELSE {<<>>})

\* The direct calls on the devices of each class.
LightCall ==
  \E o \in objs, user \in Role, name \in Operations(LIGHT), now \in HomeTimes :
    /\ dev[o].type = LIGHT
    /\ \E args \in HomeArgs(LIGHT, name) : DeviceCall(o, name, user, args, now)

ThermostatCall ==
  \E o \in objs, user \in Role, name \in Operations(THERMOSTAT), now \in HomeTimes :
    /\ dev[o].type = THERMOSTAT
    /\ \E args \in HomeArgs(THERMOSTAT, name) : DeviceCall(o, name, user, args, now)

CameraCall ==
  \E o \in objs, user \in Role, name \in Operations(CAMERA), now \in HomeTimes :
    /\ dev[o].type = CAMERA
    /\ \E args \in HomeArgs(CAMERA, name) : DeviceCall(o, name, user, args, now)

ClockCall ==
  \E o \in objs, user \in Role, name \in Operations(CLOCK), now \in HomeTimes :
    /\ dev[o].type = CLOCK
    /\ \E args \in HomeArgs(CLOCK, name) : DeviceCall(o, name, user, args, now)

\* The calls through control_device of SmartHome h.
ControlCall(h) ==
  \E user \in Role, id_name \in Ids, method_name \in MethodNames :
    \E args \in ControlArgs(method_name), now \in HomeTimes :
      /\ method_name \in NamesFor(h, id_name)
      /\ ControlDevice(h, user, id_name, method_name, args, now)

\* A program that constructs up to MaxDevices devices and one SmartHome, and
\* calls them in any order as users of any role.
Init == \E made \in SUBSET Pool : Cardinality(made) <= MaxDevices /\ InitWith(made)

Next ==
  \/ LightCall
  \/ ThermostatCall
  \/ CameraCall
  \/ ClockCall
  \/ RampStep
  \/ \E user \in Role, device \in Pool : AddDevice("h1", user, device)
  \/ \E user \in Role, device \in Pool : RemoveDevice("h1", user, device)
  \/ \E user \in Role : ShowAllDevices("h1", user)
  \/ \E user \in Role, id_name \in Ids : Find("h1", user, id_name)
  \/ \E user \in Role : Clear("h1", user)
  \/ ControlCall("h1")

Spec == Init /\ [][Next]_vars

(* ------------------------------ SpecRegistry: two homes ---------------- *)

\* A program that constructs the light and the clock that share an id_name
\* and two SmartHomes, registers and removes the devices, and calls them
\* directly and through control_device.
InitRegistry == InitWith({"l1", "k1"})

NextRegistry ==
  \/ LightCall
  \/ ClockCall
  \/ \E h \in Homes, user \in Role, device \in Pool : AddDevice(h, user, device)
  \/ \E h \in Homes, user \in Role, device \in Pool : RemoveDevice(h, user, device)
  \/ \E h \in Homes, user \in Role : ShowAllDevices(h, user)
  \/ \E h \in Homes, user \in Role, id_name \in Ids : Find(h, user, id_name)
  \/ \E h \in Homes, user \in Role : Clear(h, user)
  \/ \E h \in Homes : ControlCall(h)

SpecRegistry == InitRegistry /\ [][NextRegistry]_vars

(* ------------------------------ SpecThermostat ------------------------- *)

\* The arguments a thermostat is called with: temperatures in range, at the
\* ends of the range, out of range (by a degree and by 1e-7 degree) and
\* within the ramp's tolerance of one another; start with a
\* negative sleep length and with a step_temp that is positive (one that
\* divides the distance and one that does not), zero and negative.
ThermostatArgs(name) ==
  IF name = "set_current_temp"
    THEN {<<>>, <<20 * Scale>>, <<20 * Scale + 5>>, <<25 * Scale + 5>>, <<4 * Scale>>,
          <<MinTemp>>, <<MaxTemp>>, <<MinTemp - 1>>, <<MaxTemp + 1>>}
  ELSE IF name = "set_target_temp"
    THEN {<<>>, <<25 * Scale>>, <<31 * Scale>>, <<MinTemp>>, <<MaxTemp>>,
          <<MinTemp - 1>>, <<MaxTemp + 1>>}
  ELSE IF name = "start"
    THEN {<<>>, <<0, 3 * (Scale \div 2)>>, <<-1>>, <<0, -4 * Scale>>, <<0, 0>>}
  ELSE {<<>>}

\* A program that constructs a thermostat and calls it.
InitThermostat == InitWith({"t1"})

SetCurrentTemp ==
  \E o \in objs, user \in Role, args \in ThermostatArgs("set_current_temp") :
    DeviceCall(o, "set_current_temp", user, args, 1)

SetTargetTemp ==
  \E o \in objs, user \in Role, args \in ThermostatArgs("set_target_temp") :
    DeviceCall(o, "set_target_temp", user, args, 1)

ThermostatTurnOn ==
  \E o \in objs, user \in Role : DeviceCall(o, "turn_on", user, <<>>, 1)

ThermostatTurnOff ==
  \E o \in objs, user \in Role : DeviceCall(o, "turn_off", user, <<>>, 1)

Start ==
  \E o \in objs, user \in Role, args \in ThermostatArgs("start") :
    DeviceCall(o, "start", user, args, 1)

NextThermostat ==
  \/ SetCurrentTemp
  \/ SetTargetTemp
  \/ ThermostatTurnOn
  \/ ThermostatTurnOff
  \/ Start
  \/ RampStep

SpecThermostat == InitThermostat /\ [][NextThermostat]_vars

(* ------------------------------ SpecCamera ----------------------------- *)

\* What datetime.now() may give, and the record ids remove is called with.
CameraTimes == {1, 2}

CameraArgs(name) ==
  IF name = "remove" THEN {<<id>> : id \in 1 .. MaxRecords + 1}
  ELSE {<<>>}

\* A program that constructs a camera and calls it.
InitCamera == InitWith({"c1"})

CameraTurnOn ==
  \E o \in objs, user \in Role : DeviceCall(o, "turn_on", user, <<>>, 1)

CameraTurnOff ==
  \E o \in objs, user \in Role : DeviceCall(o, "turn_off", user, <<>>, 1)

StartRecording ==
  \E o \in objs, user \in Role, now \in CameraTimes :
    DeviceCall(o, "start_recording", user, <<>>, now)

StopRecording ==
  \E o \in objs, user \in Role, now \in CameraTimes :
    DeviceCall(o, "stop_recording", user, <<>>, now)

ShowMemory ==
  \E o \in objs, user \in Role : DeviceCall(o, "show_memory", user, <<>>, 1)

Remove ==
  \E o \in objs, user \in Role, args \in CameraArgs("remove") :
    DeviceCall(o, "remove", user, args, 1)

NextCamera ==
  \/ CameraTurnOn
  \/ CameraTurnOff
  \/ StartRecording
  \/ StopRecording
  \/ ShowMemory
  \/ Remove

SpecCamera == InitCamera /\ [][NextCamera]_vars

(* ------------------------------ SpecLight: one light ------------------ *)

\* The values set_brightness and turn_on are called with, in tenths: the
\* default, the ends of the range, values next to them on either side and
\* values between two integers.
LightArgs(name) ==
  IF name = "set_brightness"
    THEN {<<>>, <<0>>, <<1000>>, <<1005>>, <<1010>>, <<-5>>, <<-10>>, <<305>>}
  ELSE IF name = "turn_on" THEN {<<>>, <<200>>, <<1005>>, <<1010>>, <<-10>>}
  ELSE {<<>>}

\* A program that constructs one light and calls it as users of any role.
InitLight == InitWith({"l1"})

SetBrightness ==
  \E o \in objs, user \in Role, args \in LightArgs("set_brightness") :
    DeviceCall(o, "set_brightness", user, args, 1)

LightTurnOn ==
  \E o \in objs, user \in Role, args \in LightArgs("turn_on") :
    DeviceCall(o, "turn_on", user, args, 1)

LightTurnOff ==
  \E o \in objs, user \in Role : DeviceCall(o, "turn_off", user, <<>>, 1)

NextLight ==
  \/ SetBrightness
  \/ LightTurnOn
  \/ LightTurnOff

SpecLight == InitLight /\ [][NextLight]_vars

(* ------------------------------ SpecSnapshot --------------------------- *)

\* A program that constructs a light, a thermostat and a SmartHome,
\* registers and removes the devices, and keeps the dict show_all_devices
\* returns, adding entries to it and deleting entries of it.
InitSnapshot == InitWith({"l1", "t1"})

NextSnapshot ==
  \/ \E user \in Role, device \in Pool : AddDevice("h1", user, device)
  \/ \E user \in Role, device \in Pool : RemoveDevice("h1", user, device)
  \/ \E user \in Role : Clear("h1", user)
  \/ \E user \in Role : KeepAllDevices("h1", user)
  \/ \E key \in {"L1", "X9"}, device \in Pool : HeldSet(key, device)
  \/ \E key \in Ids : HeldDel(key)

SpecSnapshot == InitSnapshot /\ [][NextSnapshot]_vars

(* ------------------------------ claims: the guard ---------------------- *)

\* The class of the object a call was made on ("" if there was none).
TargetType(c) ==
  IF c.on \in Pool THEN dev[c.on].type
  ELSE IF c.on \in Homes THEN SMARTHOME
  ELSE ""

\* The call was a call of a guarded operation of the object it was made on,
\* directly or through control_device.
Guarded(c) == c.op # "" /\ c.on # "" /\ c.op \in Operations(TargetType(c))

\* C1: a call of a guarded operation by an admin never ends in a
\* PermissionError, whatever the class, the operation and the role set the
\* operation declares; the guard lets an admin through for every role set.
C1_AdminNeverDenied ==
  /\ Guarded(last) /\ last.role = ADMIN => last.res # "PermissionError"
  /\ \A roles \in SUBSET Role, type \in DeviceType :
       \A fname \in Operations(type) : access_for(roles, ADMIN, type, fname) = Allow

\* An admin has started a recording on a camera, an operation only {ADMIN}
\* is declared for.
C1_Witness ==
  /\ last.role = ADMIN /\ last.op = "start_recording" /\ last.res = "ok"
  /\ TargetType(last) = CAMERA

\* C2: a guest's call of a guarded operation is denied with a
\* PermissionError and changes no device and no registry, unless it is
\* turn_on or turn_off of a light, which is not denied (and succeeds with the
\* default level), called directly or through control_device.
C2_GuestOnlyLightOnOff ==
  [][Guarded(last') /\ last'.role = GUEST =>
       IF TargetType(last') = LIGHT /\ last'.op \in {"turn_on", "turn_off"}
       THEN /\ last'.res # "PermissionError"
            /\ last'.args = <<>> => last'.res = "ok"
       ELSE /\ last'.res = "PermissionError"
            /\ dev' = dev /\ homes' = homes]_vars

\* A guest's control_device call of set_brightness(80) on a registered light
\* is denied, the light being the one a guest's control_device call of
\* turn_on has turned on.
C2_Witness ==
  /\ last.role = GUEST /\ last.via = "h1" /\ last.op = "set_brightness"
  /\ TargetType(last) = LIGHT /\ last.args = <<800>>
  /\ last.res = "PermissionError"
  /\ dev[last.on].status /\ dev[last.on].brightness = 50

\* C3: a user's call of a guarded operation is let through by the guard on
\* a light, on a thermostat and for add_device of the registry, and denied
\* with a PermissionError on a camera, on a clock and for the other
\* operations of the registry.
C3_UserAccess ==
  Guarded(last) /\ last.role = USER =>
    IF \/ TargetType(last) \in {LIGHT, THERMOSTAT}
       \/ TargetType(last) = SMARTHOME /\ last.op = "add_device"
    THEN last.res # "PermissionError"
    ELSE last.res = "PermissionError"

\* A user has registered a device.
C3_Witness ==
  /\ last.role = USER /\ last.op = "add_device" /\ last.res = "ok"
  /\ homes[last.on].all_devices # EmptyDict

(* ------------------------------ claims: the registry ------------------- *)

\* C4: the mapping of a registry changes only by add_device of an admin or
\* a user and by remove_device and clear of an admin, and only the mapping of
\* the registry called; add_device, remove_device and clear of a guest and
\* remove_device and clear of a user end in a PermissionError and leave every
\* mapping as it was.
C4_RegistryChangesOnlyByPermitted ==
  [][/\ homes' # homes =>
          /\ last'.on \in Homes
          /\ \A h \in Homes \ {last'.on} : homes'[h] = homes[h]
          /\ \/ last'.op = "add_device" /\ last'.role \in {ADMIN, USER}
             \/ last'.op \in {"remove_device", "clear"} /\ last'.role = ADMIN
     /\ /\ last'.on \in Homes
        /\ \/ last'.role = GUEST /\ last'.op \in {"add_device", "remove_device", "clear"}
           \/ last'.role = USER /\ last'.op \in {"remove_device", "clear"}
        => last'.res = "PermissionError" /\ homes' = homes]_vars

\* A user's clear of a registry that holds a device has been denied.
C4_Witness ==
  /\ last.on \in Homes /\ last.role = USER /\ last.op = "clear"
  /\ last.res = "PermissionError"
  /\ homes[last.on].all_devices # EmptyDict

\* C5: for a caller the guard lets through, add_device of a device whose
\* id_name is registered ends in a KeyError and leaves the mapping as it was
\* (add_device of one whose id_name is not puts it under its id_name and
\* nothing else); remove_device of a device whose id_name is not registered
\* and find of an id that is not registered end in a KeyError and leave the
\* mapping as it was; find of a registered id returns the device under it.
C5_UniqueKeysExactLookup ==
  [][last'.on \in Homes /\ last'.res # "PermissionError" =>
       LET m == homes[last'.on].all_devices
       IN /\ last'.op = "add_device" =>
               LET key == dev[last'.args[1]].id_name
               IN IF key \in DOMAIN m
                  THEN last'.res = "KeyError" /\ homes' = homes
                  ELSE /\ last'.res = "ok"
                       /\ homes'[last'.on].all_devices = DictSet(m, key, last'.args[1])
          /\ last'.op = "remove_device" /\ dev[last'.args[1]].id_name \notin DOMAIN m
               => last'.res = "KeyError" /\ homes' = homes
          /\ last'.op = "find" =>
               IF last'.args[1] \in DOMAIN m
               THEN last'.res = "ok" /\ last'.ret = m[last'.args[1]] /\ homes' = homes
               ELSE last'.res = "KeyError" /\ homes' = homes]_vars

\* add_device of the clock has ended in a KeyError, the light being
\* registered under the id_name they share, and the light is still there.
C5_Witness ==
  /\ last.on \in Homes /\ last.op = "add_device" /\ last.res = "KeyError"
  /\ last.args = <<"k1">>
  /\ homes[last.on].all_devices = [k \in {"L1"} |-> "l1"]

(* ------------------------------ claims: control_device ----------------- *)

\* C6: a control_device call ends in a KeyError if no device is registered
\* under the id; else in a ValueError ("unknown method") if the name is no
\* operation of the device registered under it; else it ends, returns and
\* leaves the device as the direct call of that operation by the same user
\* with the same arguments on the device as it was before the call does.
C6_ControlDeviceAsDirect ==
  last.via # "" =>
    IF last.on = "" THEN last.res = "KeyError"
    ELSE IF last.op \notin Operations(TargetType(last))
      THEN last.res = "ValueError" /\ dev[last.on] = last.before
    ELSE \E now \in HomeTimes :
           LET direct == Invoke(last.before, last.op, last.role, last.args, now)
           IN direct.pc # "loop" =>
                /\ last.res = direct.res /\ last.msg = direct.msg
                /\ last.ret = direct.ret /\ dev[last.on] = direct.self

(* ------------------------------ claims: errors ------------------------- *)

\* C7: when a call has ended in an error, the object it was made on is as
\* it was when the call was made, and so is every other device and every
\* registry.
C7_ErrorLeavesStateUnchanged ==
  pc = "idle" /\ last.res \notin {"", "ok"} =>
    /\ last.on \in Pool => dev[last.on] = last.before
    /\ last.on \in Homes => homes[last.on] = last.before

(* ------------------------------ claims: the camera --------------------- *)

\* The call recorded in c was made by an admin on a camera, with no
\* argument but the user.
AdminOnCamera(c) ==
  c.on \in Pool /\ TargetType(c) = CAMERA /\ c.role = ADMIN /\ c.args = <<>>

\* C8: start_recording of an admin ends in a RuntimeError and changes
\* nothing if the camera is off or a recording is in progress, and else
\* starts one; stop_recording of an admin ends in a RuntimeError and changes
\* nothing if the camera is off or no recording is in progress, and else ends
\* it; a recording in progress ends by nothing but a successful
\* stop_recording and begins by nothing but a successful start_recording, so
\* that between two successful start_recording calls there is a successful
\* stop_recording, and no recording is in progress before the first start.
C8_RecordingProtocol ==
  /\ last = NoCall => \A o \in objs : dev[o].type = CAMERA => dev[o].record = <<>>
  /\ [][/\ AdminOnCamera(last') /\ last'.op = "start_recording" =>
             IF ~dev[last'.on].status \/ dev[last'.on].record # <<>>
             THEN last'.res = "RuntimeError" /\ dev' = dev
             ELSE last'.res = "ok" /\ dev'[last'.on].record # <<>>
        /\ AdminOnCamera(last') /\ last'.op = "stop_recording" =>
             IF ~dev[last'.on].status \/ dev[last'.on].record = <<>>
             THEN last'.res = "RuntimeError" /\ dev' = dev
             ELSE last'.res = "ok" /\ dev'[last'.on].record = <<>>
        /\ \A o \in objs :
             dev[o].type = CAMERA /\ dev'[o].record # dev[o].record =>
               /\ last'.on = o /\ last'.res = "ok"
               /\ last'.op = IF dev[o].record = <<>> THEN "start_recording"
                                                    ELSE "stop_recording"]_vars

\* The second of two start_recording calls of an admin has ended in a
\* RuntimeError, the recording of the first still in progress.
C8_Witness ==
  /\ AdminOnCamera(last) /\ last.op = "start_recording"
  /\ last.res = "RuntimeError"
  /\ dev[last.on].status /\ dev[last.on].record # <<>>

\* The keys str(1) .. str(n).
IdKeys(n) == {ToString(i) : i \in 1..n}

\* C9: next_id starts at 1 and changes only by a successful stop_recording,
\* which stores its entry under str(next_id), a key the memory does not
\* hold, changes no other entry and adds one to next_id (so the k-th
\* successful stop stores under str(k), whatever was removed); every key of
\* the memory is the string of an id below next_id; remove of an id the
\* memory does not hold, by an admin, ends in a KeyError and leaves memory
\* and next_id as they were.
C9_RecordIds ==
  /\ [](\A o \in objs : dev[o].type = CAMERA =>
          /\ last = NoCall => dev[o].next_id = 1
          /\ DOMAIN dev[o].memory \subseteq IdKeys(dev[o].next_id - 1))
  /\ [][\A o \in objs : dev[o].type = CAMERA =>
          LET key == ToString(dev[o].next_id)
          IN /\ dev'[o].next_id >= dev[o].next_id
             /\ IF last'.on = o /\ last'.op = "stop_recording" /\ last'.res = "ok"
                THEN /\ key \notin DOMAIN dev[o].memory
                     /\ DOMAIN dev'[o].memory = DOMAIN dev[o].memory \cup {key}
                     /\ \A k \in DOMAIN dev[o].memory : dev'[o].memory[k] = dev[o].memory[k]
                     /\ dev'[o].next_id = dev[o].next_id + 1
                ELSE /\ dev'[o].next_id = dev[o].next_id
                     /\ DOMAIN dev'[o].memory \subseteq DOMAIN dev[o].memory
             /\ /\ last'.on = o /\ last'.op = "remove" /\ last'.role = ADMIN
                /\ Len(last'.args) = 1
                /\ ToString(last'.args[1]) \notin DOMAIN dev[o].memory
                => last'.res = "KeyError" /\ dev'[o] = dev[o]]_vars

\* The second successful stop_recording has stored its entry under "2",
\* the entry under "1" having been removed before it.
C9_Witness ==
  /\ AdminOnCamera(last) /\ last.op = "stop_recording" /\ last.res = "ok"
  /\ DOMAIN last.before.memory = {}
  /\ DOMAIN dev[last.on].memory = {"2"}
  /\ dev[last.on].next_id = 3

(* ------------------------------ claims: the ramp ----------------------- *)

\* The least n with n * d >= x, for x >= 0 and d > 0.
CeilDiv(x, d) == (x + d - 1) \div d

\* The last call is a start call of a user the guard lets through, with a
\* positive step_temp, on a thermostat that was on and had a target.
RampCall(c) ==
  /\ c.op = "start" /\ c.on \in Pool /\ TargetType(c) = THERMOSTAT
  /\ c.role \in {ADMIN, USER}
  /\ Len(c.args) <= 2 /\ (Len(c.args) >= 1 => c.args[1] >= 0)
  /\ StepTempOf(c.args) > 0
  /\ c.before.status /\ c.before.target # <<>>

\* The distance of current from target when the call recorded in c began.
RampDistance(c) == Abs(c.before.target[1] - c.before.current)

\* Each step of the ramp moves current toward target by step_temp, clamped
\* so that current does not pass target.
RampStepClamped ==
  [][RampCall(last) /\ pc = "loop" /\ last'.steps = last.steps + 1 =>
       LET cur == dev[last.on].current
           tgt == dev[last.on].target[1]
           step == StepTempOf(last.args)
       IN /\ dev'[last.on].current =
               IF cur < tgt THEN Min(tgt, cur + step) ELSE Max(tgt, cur - step)
          /\ dev'[last.on].target = dev[last.on].target
          /\ Abs(dev'[last.on].current - tgt) = Max(0, Abs(cur - tgt) - step)]_vars

\* C10 as stated: each step of the ramp moves current toward target by
\* step_temp, clamped at target; the ramp makes exactly
\* ceil(|target - current| / step_temp) steps and ends with current equal to
\* target and the thermostat off.
C10_RampExactSteps ==
  /\ [](RampCall(last) /\ pc = "idle" =>
         /\ last.res = "ok"
         /\ last.steps = CeilDiv(RampDistance(last), StepTempOf(last.args))
         /\ dev[last.on].current = dev[last.on].target[1]
         /\ ~dev[last.on].status)
  /\ RampStepClamped

\* C10 with the loop's tolerance: each step of the ramp moves current
\* toward target by step_temp, clamped at target; the ramp makes no step if
\* current is within 1e-6 of target when start is called and else
\* ceil((|target - current| - 1e-6) / step_temp) steps, and ends with
\* current within 1e-6 of target, on the side of target it started from, and
\* the thermostat off.
C10_RampWithinTolerance ==
  /\ [](RampCall(last) /\ pc = "idle" =>
         LET cur == dev[last.on].current
             tgt == dev[last.on].target[1]
         IN /\ last.res = "ok"
            /\ last.steps = IF RampDistance(last) <= Eps THEN 0
                            ELSE CeilDiv(RampDistance(last) - Eps, StepTempOf(last.args))
            /\ Abs(cur - tgt) <= Eps
            /\ last.before.current <= tgt => cur <= tgt
            /\ last.before.current >= tgt => cur >= tgt
            /\ tgt = last.before.target[1]
            /\ ~dev[last.on].status)
  /\ RampStepClamped

\* The ramp from 20.0 to 25.0 by the default 0.5 has ended after 10 steps
\* with current 25.0 and the thermostat off.
C10_Witness ==
  /\ RampCall(last) /\ pc = "idle" /\ last.res = "ok"
  /\ last.before.current = 20 * Scale /\ last.before.target = <<25 * Scale>>
  /\ StepTempOf(last.args) = Scale \div 2
  /\ last.steps = 10
  /\ dev[last.on].current = 25 * Scale /\ ~dev[last.on].status

(* ------------------------------ claims: on and off --------------------- *)

\* C11: on a thermostat, a camera or a clock, a turn_on (turn_off) call the
\* guard lets through switches a device that is off (on) on (off), changing
\* nothing else, and logs one line, and changes nothing and logs nothing on
\* a device that is on (off) already; so the second of two turn_on (two
\* turn_off) calls in a row changes nothing and logs nothing, the first
\* having made the one transition and logged the one line.
C11_OnOffIdempotent ==
  [][\A o \in objs :
       /\ dev[o].type \in {THERMOSTAT, CAMERA, CLOCK}
       /\ last'.on = o /\ last'.op \in {"turn_on", "turn_off"} /\ last'.res = "ok"
       => LET on == (last'.op = "turn_on")
          IN /\ IF dev[o].status = on
                THEN dev' = dev /\ last'.logs = 0
                ELSE /\ dev' = [dev EXCEPT ![o].status = on]
                     /\ last'.logs = 1
             /\ last.on = o /\ last.op = last'.op /\ last.res = "ok"
                => /\ dev' = dev /\ last'.logs = 0
                   /\ last.logs = 1 /\ last.before.status # on]_vars

\* The second of two turn_on calls on a clock has changed nothing and
\* logged nothing.
C11_Witness ==
  /\ last.on \in Pool /\ TargetType(last) = CLOCK
  /\ last.op = "turn_on" /\ last.res = "ok" /\ last.logs = 0
  /\ last.before = [NewClock("L1") EXCEPT !.status = TRUE]
  /\ dev[last.on] = last.before

(* ------------------------------ claims: ranges ------------------------- *)

\* C12: a set_brightness(v) call the guard lets through succeeds if and
\* only if 0 <= v <= 100 (v in tenths: 0 <= v <= 1000), and else ends in a
\* ValueError and leaves the brightness as it was; the brightness of a light
\* is an integer from 0 to 100 in every state.
C12_BrightnessRange ==
  /\ [](\A o \in objs : dev[o].type = LIGHT =>
          dev[o].brightness \in MinBrightness..MaxBrightness)
  /\ [][/\ last'.on \in Pool /\ TargetType(last') = LIGHT
        /\ last'.op = "set_brightness" /\ last'.role \in {ADMIN, USER}
        /\ Len(last'.args) <= 1
        => LET v == IF last'.args = <<>> THEN DefaultLevel ELSE last'.args[1]
           IN IF MinBrightness * 10 <= v /\ v <= MaxBrightness * 10
              THEN last'.res = "ok"
              ELSE last'.res = "ValueError" /\ dev' = dev]_vars

\* C13: a set_current_temp(t) or set_target_temp(t) call the guard lets
\* through succeeds (and stores t) if and only if 5 <= t <= 30, and else
\* ends in a ValueError and changes nothing; in every state, the states
\* inside a running ramp among them, current is from 5 to 30 and target is
\* unset or from 5 to 30.
C13_TemperatureRange ==
  /\ [](\A o \in objs : dev[o].type = THERMOSTAT =>
          /\ 5 * Scale <= dev[o].current /\ dev[o].current <= 30 * Scale
          /\ \/ dev[o].target = <<>>
             \/ 5 * Scale <= dev[o].target[1] /\ dev[o].target[1] <= 30 * Scale)
  /\ [][/\ last'.on \in Pool /\ TargetType(last') = THERMOSTAT
        /\ last'.op \in {"set_current_temp", "set_target_temp"}
        /\ last'.role \in {ADMIN, USER} /\ Len(last'.args) <= 1
        => LET t == IF last'.args # <<>> THEN last'.args[1]
                    ELSE IF last'.op = "set_current_temp" THEN 24 * Scale
                    ELSE 20 * Scale
           IN IF 5 * Scale <= t /\ t <= 30 * Scale
              THEN /\ last'.res = "ok"
                   /\ last'.op = "set_current_temp" => dev'[last'.on].current = t
                   /\ last'.op = "set_target_temp" => dev'[last'.on].target = <<t>>
              ELSE last'.res = "ValueError" /\ dev' = dev]_vars

\* A ramp with a negative step_temp has moved current away from target,
\* from 24.0 to 28.0, and is still running.
C13_Witness ==
  /\ pc = "loop" /\ last.op = "start" /\ last.steps >= 1
  /\ StepTempOf(last.args) < 0
  /\ last.before.current = 24 * Scale
  /\ dev[last.on].current = 28 * Scale

(* ------------------------------ claims: the snapshot ------------------- *)

\* C14: the dict a show_all_devices call of an admin returns has the
\* entries the registry has at the call; no later call of the registry
\* changes the entries of a dict that was returned, and adding an entry to a
\* returned dict or deleting one of it changes no registry.
C14_SnapshotIsACopy ==
  [][/\ /\ last'.op = "show_all_devices" /\ last'.res = "ok"
        /\ held'.of = last'.on /\ held.of = ""
        => HeldValue' = homes[last'.on].all_devices /\ homes' = homes
     /\ held.of # "" /\ homes' # homes => HeldValue' = HeldValue
     /\ held.of # "" /\ HeldValue' # HeldValue => homes' = homes]_vars

\* A dict returned when the registry held the light still has the light's
\* entry after the registry was cleared, and an entry added to it afterwards
\* is not in the registry.
C14_Witness ==
  /\ held.of = "h1"
  /\ HeldValue = [k \in {"L1", "X9"} |-> IF k = "L1" THEN "l1" ELSE "t1"]
  /\ homes["h1"].all_devices = EmptyDict
  /\ last.op = "clear" /\ last.res = "ok"

(* ------------------------------ claims: camera states ------------------ *)

\* C15: a camera is off with no recording in progress, on with none, or on
\* with one: in no state is a camera off with a recording in progress.
C15_NoRecordingWhileOff ==
  \A o \in objs : dev[o].type = CAMERA =>
    /\ dev[o].status \in BOOLEAN
    /\ dev[o].record # <<>> => dev[o].status

(* ------------------------------ claims: termination -------------------- *)

\* C16: a start call that has entered its loop leaves it, ending with the
\* thermostat turned off or in an error, whatever its step_temp: no
\* iteration of the loop leaves the call in the loop with current as it was
\* (the loop's condition and body read current, target and step_temp only,
\* so that an iteration that changes none of them is followed by the same
\* iteration, without end).
C16_StartFinishes ==
  [][pc = "loop" /\ pc' = "loop" /\ last'.op = "start" =>
       /\ dev'[last.on].current # dev[last.on].current
       /\ dev'[last.on].target = dev[last.on].target]_vars

(* ------------------------------ claims: start's precondition ----------- *)

\* The call recorded in c is a call of op on a thermostat by a user the
\* guard lets through, with no more arguments than op takes.
OnThermostat(c, op, arity) ==
  /\ c.on \in Pool /\ TargetType(c) = THERMOSTAT
  /\ c.op = op /\ c.role \in {ADMIN, USER} /\ Len(c.args) <= arity

\* After a successful set_target_temp the thermostat is on and has a
\* target, and a start call that follows it at once does not end in a
\* RuntimeError.
StartAfterSetTarget ==
  [][/\ OnThermostat(last', "set_target_temp", 1) /\ last'.res = "ok"
        => dev'[last'.on].status /\ dev'[last'.on].target # <<>>
     /\ /\ OnThermostat(last, "set_target_temp", 1) /\ last.res = "ok"
        /\ OnThermostat(last', "start", 2) /\ last'.on = last.on /\ pc = "idle"
        => last'.res # "RuntimeError"]_vars

\* C17 as stated: a start call the guard lets through ends in a
\* RuntimeError, changing nothing, if and only if the thermostat is off or
\* has no target, and else begins the ramp; and a successful
\* set_target_temp leaves the thermostat on with a target, so that a start
\* call that follows at once passes the precondition.
C17_StartPrecondition ==
  /\ [][OnThermostat(last', "start", 2) /\ pc = "idle" =>
          IF ~dev[last'.on].status \/ dev[last'.on].target = <<>>
          THEN last'.res = "RuntimeError" /\ dev' = dev /\ pc' = "idle"
          ELSE last'.res = "running" /\ pc' = "loop" /\ dev' = dev]_vars
  /\ StartAfterSetTarget

\* C17 with the sleep's own test: as C17, but a start call that passes the
\* precondition begins the ramp only if its step_sec is not negative, and
\* with a negative step_sec ends in a ValueError, having logged its start
\* line and changed nothing.
C17_StartPreconditionThenSleep ==
  /\ [][OnThermostat(last', "start", 2) /\ pc = "idle" =>
          LET step_sec == IF Len(last'.args) >= 1 THEN last'.args[1] ELSE 3
          IN IF ~dev[last'.on].status \/ dev[last'.on].target = <<>>
             THEN last'.res = "RuntimeError" /\ dev' = dev /\ pc' = "idle"
             ELSE IF step_sec < 0
             THEN /\ last'.res = "ValueError" /\ last'.logs = 1
                  /\ dev' = dev /\ pc' = "idle"
             ELSE last'.res = "running" /\ pc' = "loop" /\ dev' = dev]_vars
  /\ StartAfterSetTarget

\* A start call has begun the ramp on a thermostat that set_target_temp
\* has turned on, having been off before.
C17_Witness ==
  /\ OnThermostat(last, "start", 2) /\ pc = "loop" /\ last.steps = 0
  /\ last.res = "running"
  /\ last.before = [NewThermostat("T1") EXCEPT !.target = <<20 * Scale>>,
                                               !.status = TRUE]

(* ------------------------------ claims: one registry per device -------- *)

\* The SmartHomes that hold device o.
HoldersOf(o) ==
  {h \in Homes : \E k \in DOMAIN homes[h].all_devices : homes[h].all_devices[k] = o}

\* C18: no device is held by two SmartHomes at once; and a remove_device
\* or clear call changes no device.
C18_OneRegistryPerDevice ==
  /\ [](\A o \in objs : Cardinality(HoldersOf(o)) <= 1)
  /\ [][last'.on \in Homes /\ last'.op \in {"remove_device", "clear"}
          => dev' = dev]_vars

(* ------------------------------ claims: the role sets ------------------ *)

\* C19: for every guarded operation of every class and every role, the
\* guard lets the call through if and only if the role is ADMIN or is in the
\* role set the operation declares, and denies it with the "no access
\* rights" message otherwise; so every call of a guarded operation that ends
\* in a PermissionError carries that message, and a call ends in one if and
\* only if its role is neither ADMIN nor in the declared set.
C19_RoleSetDecides ==
  /\ \A type \in DeviceType : \A fname \in Operations(type) : \A role \in Role :
       access_for(DeclaredRoles(type, fname), role, type, fname) =
         IF role = ADMIN \/ role \in DeclaredRoles(type, fname)
         THEN Allow ELSE DenyNoRights
  /\ Guarded(last) =>
       /\ last.res = "PermissionError" <=>
            /\ last.role # ADMIN
            /\ last.role \notin DeclaredRoles(TargetType(last), last.op)
       /\ last.res = "PermissionError" => last.msg = DenyNoRights

\* A guest's call of a thermostat's turn_on through control_device has been
\* denied with the "no access rights" message.
C19_Witness ==
  /\ Guarded(last) /\ last.role = GUEST /\ TargetType(last) = THERMOSTAT
  /\ last.op = "turn_on" /\ last.via = "h1"
  /\ last.res = "PermissionError" /\ last.msg = DenyNoRights

(* ------------------------------ claims: keys and id_names -------------- *)

\* C20: every key of a registry is the id_name of the device under it; a
\* successful remove_device of a device the registry holds deletes the entry
\* of that device and no other; and the device a control_device call
\* reaches is one the registry holds under its own id_name.
C20_KeysAreIdNames ==
  /\ [](\A h \in Homes : \A k \in DOMAIN homes[h].all_devices :
          dev[homes[h].all_devices[k]].id_name = k)
  /\ [][/\ /\ last'.on \in Homes /\ last'.op = "remove_device" /\ last'.res = "ok"
           /\ last'.on \in HoldersOf(last'.args[1])
           => LET m == homes[last'.on].all_devices
                  d == last'.args[1]
              IN /\ m[dev[d].id_name] = d
                 /\ homes'[last'.on].all_devices = DictDel(m, dev[d].id_name)
        /\ last'.via \in Homes /\ last'.on \in Pool
           => LET m == homes[last'.via].all_devices
              IN /\ dev[last'.on].id_name \in DOMAIN m
                 /\ m[dev[last'.on].id_name] = last'.on]_vars

\* A control_device call on the second registry has reached the clock it
\* holds under "L1", the first registry holding the light under the same
\* key.
C20_Witness ==
  /\ last.via = "h2" /\ last.on = "k1" /\ last.res = "ok"
  /\ homes["h2"].all_devices = [k \in {"L1"} |-> "k1"]
  /\ homes["h1"].all_devices = [k \in {"L1"} |-> "l1"]

====
